---- MODULE Spec2Model ----
(***************************************************************************)
(* Model of 3.py: a command-line manager of a JSON file of person records *)
(* (name, surname, date_of_birth, zodiac_sign) with the commands add,     *)
(* list and select.                                                        *)
(*                                                                         *)
(* Text is a sequence of one-character strings.  A JSON value is a record  *)
(* tagged by its JSON type in field t: a string carries its text in s, an  *)
(* object its members in f (a function whose domain is the set of keys),   *)
(* an array its elements in a.  A parsed datetime is tagged "datetime".    *)
(***************************************************************************)
EXTENDS Integers, Sequences, FiniteSets, TLC

\* ------------------------------------------------------------------ bounds
\* longest array of an initial file
MaxLen == 2
\* the add command is not started on a stored array of this length or more
MaxFile == 3

\* ------------------------------------------------------------------ text
Digits == {"0", "1", "2", "3", "4", "5", "6", "7", "8", "9"}

DigitChar == <<"0", "1", "2", "3", "4", "5", "6", "7", "8", "9">>

DigitVal(c) == CHOOSE n \in 0..9 : DigitChar[n + 1] = c

\* code points of the characters the model uses
Code(c) ==
  CASE c = " " -> 32
    [] c = "-" -> 45
    [] c = "." -> 46
    [] c \in Digits -> 48 + DigitVal(c)
    [] c = "A" -> 65
    [] c = "B" -> 66
    [] c = "I" -> 73
    [] c = "P" -> 80
    [] c = "a" -> 97
    [] c = "q" -> 113
    [] OTHER -> 120

RECURSIVE StrLeq(_, _)
\* Python's str <= str: lexicographic by code point, a prefix sorts first
StrLeq(s, u) ==
  IF s = <<>> THEN TRUE
  ELSE IF u = <<>> THEN FALSE
  ELSE IF Code(Head(s)) < Code(Head(u)) THEN TRUE
  ELSE IF Code(Head(s)) > Code(Head(u)) THEN FALSE
  ELSE StrLeq(Tail(s), Tail(u))

RECURSIVE IntOf(_)
\* int() of a run of decimal digits
IntOf(ds) ==
  IF ds = <<>> THEN 0
  ELSE 10 * IntOf(SubSeq(ds, 1, Len(ds) - 1)) + DigitVal(ds[Len(ds)])

RECURSIVE DecimalOf(_)
\* the decimal digits of a positive integer, no leading zeros
DecimalOf(n) ==
  IF n < 10 THEN <<DigitChar[n + 1]>>
  ELSE Append(DecimalOf(n \div 10), DigitChar[(n % 10) + 1])

RECURSIVE ZeroPad(_, _)
ZeroPad(s, w) == IF Len(s) >= w THEN s ELSE ZeroPad(<<"0">> \o s, w)

\* ------------------------------------------------------------------ dates
IsLeap(y) == (y % 4 = 0) /\ ((y % 100 # 0) \/ (y % 400 = 0))

DaysInMonth(y, m) ==
  IF m = 2 THEN (IF IsLeap(y) THEN 29 ELSE 28)
  ELSE IF m \in {4, 6, 9, 11} THEN 30 ELSE 31

\* %d of strptime: 3[0-1]|[1-2]\d|0[1-9]|[1-9]| [1-9]
MatchD(s) ==
  \/ /\ Len(s) = 2
     /\ \/ s[1] = "3" /\ s[2] \in {"0", "1"}
        \/ s[1] \in {"1", "2"} /\ s[2] \in Digits
        \/ s[1] \in {"0", " "} /\ s[2] \in Digits \ {"0"}
  \/ Len(s) = 1 /\ s[1] \in Digits \ {"0"}

\* %m of strptime: 1[0-2]|0[1-9]|[1-9]
MatchM(s) ==
  \/ /\ Len(s) = 2
     /\ \/ s[1] = "1" /\ s[2] \in {"0", "1", "2"}
        \/ s[1] = "0" /\ s[2] \in Digits \ {"0"}
  \/ Len(s) = 1 /\ s[1] \in Digits \ {"0"}

\* %Y of strptime: \d\d\d\d
MatchY(s) == Len(s) = 4 /\ \A i \in 1..4 : s[i] \in Digits

DigitsOnly(s) == SelectSeq(s, LAMBDA c : c \in Digits)

\* datetime.strptime(text, '%d.%m.%Y'): the whole text must be
\* <day>.<month>.<year>, and the three numbers must be a calendar date
\* with 1 <= year; a ValueError is the result with ok = FALSE
strptime(text) ==
  LET dots == {i \in 1..Len(text) : text[i] = "."}
  IN  IF Cardinality(dots) # 2 THEN [ok |-> FALSE]
      ELSE
        LET p1 == CHOOSE i \in dots : \A j \in dots : i <= j
            p2 == CHOOSE i \in dots : \A j \in dots : j <= i
            D == SubSeq(text, 1, p1 - 1)
            M == SubSeq(text, p1 + 1, p2 - 1)
            Y == SubSeq(text, p2 + 1, Len(text))
        IN  IF ~(MatchD(D) /\ MatchM(M) /\ MatchY(Y)) THEN [ok |-> FALSE]
            ELSE
              LET d == IntOf(DigitsOnly(D))
                  m == IntOf(M)
                  y == IntOf(Y)
              IN  IF y >= 1 /\ d <= DaysInMonth(y, m)
                  THEN [ok |-> TRUE,
                        date |-> [t |-> "datetime", y |-> y, m |-> m, d |-> d]]
                  ELSE [ok |-> FALSE]

\* %Y of strftime: the C library's rendering of the year; some builds pad it
\* to four digits, others (glibc) print a year below 1000 unpadded
YearText(y, pad) == IF pad THEN ZeroPad(DecimalOf(y), 4) ELSE DecimalOf(y)

\* date.strftime('%d.%m.%Y')
strftime(date, pad) ==
  ZeroPad(DecimalOf(date.d), 2) \o <<".">> \o ZeroPad(DecimalOf(date.m), 2)
    \o <<".">> \o YearText(date.y, pad)

\* ------------------------------------------------------------------ JSON
Str(text) == [t |-> "string", s |-> text]

Num == [t |-> "number"]

Obj(members) == [t |-> "object", f |-> members]

Arr(elems) == [t |-> "array", a |-> elems]

RequiredKeys == {"name", "surname", "date_of_birth", "zodiac_sign"}

person_schema ==
  [type |-> "object",
   properties |-> [name |-> [type |-> "string"],
                   surname |-> [type |-> "string"],
                   date_of_birth |-> [type |-> "string", format |-> "date"],
                   zodiac_sign |-> [type |-> "string"]],
   required |-> RequiredKeys]

\* mutant: the "format" keyword enforced on the date text
FormatErrorsChecked(v, sub) ==
  IF v.t = "string" /\ ~strptime(v.s).ok THEN {<<"format", sub.format>>} ELSE {}

\* jsonschema.validate(instance, schema) is called without a format_checker:
\* the "format" keyword is then an annotation and rejects nothing
FormatErrors(v, sub) == {}

\* the errors of one property value against its subschema
PropertyErrors(k, v, sub) ==
  (IF v.t # sub.type THEN {<<"type", k>>} ELSE {})
    \cup (IF "format" \in DOMAIN sub THEN FormatErrors(v, sub) ELSE {})

\* "properties" constrains the listed keys that are present; keys that are
\* not listed are unconstrained (the schema has no additionalProperties)
ConstrainedKeys(inst, schema) == DOMAIN schema.properties \cap DOMAIN inst.f

\* the validation errors of an instance, keyword by keyword; "properties"
\* and "required" apply to objects only
iter_errors(inst, schema) ==
  (IF inst.t # schema.type THEN {<<"type", "">>} ELSE {})
    \cup (IF inst.t = "object"
          THEN UNION {PropertyErrors(k, inst.f[k], schema.properties[k]) :
                        k \in ConstrainedKeys(inst, schema)}
          ELSE {})
    \cup (IF inst.t = "object"
          THEN {<<"required", k>> : k \in schema.required \ DOMAIN inst.f}
          ELSE {})

\* True when jsonschema.validate raises no ValidationError; the
\* ValidationError is caught and turned into False
validate_person(person_data, schema) == iter_errors(person_data, schema) = {}

\* ------------------------------------------------------------------ sort
\* item.get('zodiac_sign', '')
SortKey(item) ==
  IF "zodiac_sign" \in DOMAIN item THEN item["zodiac_sign"].s ELSE <<>>

\* mutant: x goes before the elements whose key equals its own
InsertPosBeforeEqual(sorted, x) ==
  LET later == {j \in 1..Len(sorted) :
                  StrLeq(SortKey(x), SortKey(sorted[j]))}
  IN  IF later = {} THEN Len(sorted) + 1
      ELSE CHOOSE j \in later : \A k \in later : j <= k

\* x goes after every element whose key is <= its own
InsertPos(sorted, x) ==
  LET later == {j \in 1..Len(sorted) :
                  ~StrLeq(SortKey(sorted[j]), SortKey(x))}
  IN  IF later = {} THEN Len(sorted) + 1
      ELSE CHOOSE j \in later : \A k \in later : j <= k

Insert(sorted, x) ==
  LET p == InsertPos(sorted, x)
  IN  SubSeq(sorted, 1, p - 1) \o <<x>> \o SubSeq(sorted, p, Len(sorted))

RECURSIVE Sort(_)
\* list.sort(key=...): a stable ascending sort
Sort(people) ==
  IF people = <<>> THEN <<>>
  ELSE Insert(Sort(SubSeq(people, 1, Len(people) - 1)), people[Len(people)])

\* ------------------------------------------------------------------ load
RECURSIVE SetToSeq(_)
SetToSeq(S) ==
  IF S = {} THEN <<>>
  ELSE LET x == CHOOSE x \in S : TRUE IN <<x>> \o SetToSeq(S \ {x})

\* what "for person in staff_loaded" iterates over: the elements of a list,
\* the keys of a dict, the characters of a str
Iterate(top) ==
  CASE top.t = "array" -> top.a
    [] top.t = "object" ->
         LET ks == SetToSeq(DOMAIN top.f)
         IN  [i \in 1..Len(ks) |-> Str(<<ks[i]>>)]
    [] top.t = "string" -> [i \in 1..Len(top.s) |-> Str(<<top.s[i]>>)]

Iterable(top) == top.t \in {"array", "object", "string"}

RECURSIVE LoadLoopAbort(_, _, _, _)
\* mutant: the loop ends at the first element that is not accepted
LoadLoopAbort(staff_loaded, cnt, result_people, log) ==
  IF cnt = Len(staff_loaded) THEN [people |-> result_people, log |-> log]
  ELSE
    LET person == staff_loaded[cnt + 1]
        good == /\ validate_person(person, person_schema)
                /\ strptime(person.f["date_of_birth"].s).ok
    IN  IF good
        THEN LoadLoopAbort(staff_loaded, cnt + 1,
               Append(result_people,
                      [person.f EXCEPT !["date_of_birth"] =
                         strptime(person.f["date_of_birth"].s).date]),
               Append(log, "accepted"))
        ELSE [people |-> result_people, log |-> Append(log, "invalid")]

RECURSIVE LoadLoop(_, _, _, _)
\* the loop of load_people from element cnt + 1 on: result_people and the
\* per-element outcome so far
LoadLoop(staff_loaded, cnt, result_people, log) ==
  IF cnt = Len(staff_loaded) THEN [people |-> result_people, log |-> log]
  ELSE
    LET person == staff_loaded[cnt + 1]
    IN  IF validate_person(person, person_schema)
        THEN LET r == strptime(person.f["date_of_birth"].s)
             IN  IF r.ok
                 THEN LoadLoop(staff_loaded, cnt + 1,
                        Append(result_people,
                               [person.f EXCEPT !["date_of_birth"] = r.date]),
                        Append(log, "accepted"))
                 ELSE LoadLoop(staff_loaded, cnt + 1, result_people,
                               Append(log, "date_error"))
        ELSE LoadLoop(staff_loaded, cnt + 1, result_people,
                      Append(log, "invalid"))

\* mutant: the loaded records are sorted by zodiac sign before they are returned
load_people_sorted(stored) ==
  IF stored.kind # "json" \/ ~Iterable(stored.top)
  THEN [ok |-> FALSE, err |-> "error"]
  ELSE LET r == LoadLoop(Iterate(stored.top), 0, <<>>, <<>>)
       IN  [ok |-> TRUE, people |-> Sort(r.people), log |-> r.log]

\* load_people: open and json.load raise on a missing file and on text that
\* is not JSON; the for loop raises TypeError on a value that is not iterable
load_people(stored) ==
  IF stored.kind = "missing" THEN [ok |-> FALSE, err |-> "FileNotFoundError"]
  ELSE IF stored.kind = "text" THEN [ok |-> FALSE, err |-> "JSONDecodeError"]
  ELSE IF ~Iterable(stored.top) THEN [ok |-> FALSE, err |-> "TypeError"]
  ELSE LET r == LoadLoop(Iterate(stored.top), 0, <<>>, <<>>)
       IN  [ok |-> TRUE, people |-> r.people, log |-> r.log]

\* ------------------------------------------------------------------ add
\* mutant: a date that does not parse is skipped without an error
add_person_lenient(people, name, surname, date_of_birth, zodiac_sign) ==
  LET r == strptime(date_of_birth)
  IN  IF ~r.ok THEN [ok |-> TRUE, people |-> people]
      ELSE [ok |-> TRUE,
            people |-> Sort(Append(people,
                         [name |-> Str(name), surname |-> Str(surname),
                          date_of_birth |-> r.date,
                          zodiac_sign |-> Str(zodiac_sign)]))]

\* add_person: strptime raises before anything is appended
add_person(people, name, surname, date_of_birth, zodiac_sign) ==
  LET r == strptime(date_of_birth)
  IN  IF ~r.ok THEN [ok |-> FALSE, err |-> "ValueError"]
      ELSE LET person == [name |-> Str(name),
                          surname |-> Str(surname),
                          date_of_birth |-> r.date,
                          zodiac_sign |-> Str(zodiac_sign)]
           IN  [ok |-> TRUE, people |-> Sort(Append(people, person))]

\* ------------------------------------------------------------------ queries
\* person.get(key, '')
GetText(person, key) == IF key \in DOMAIN person THEN person[key].s ELSE <<>>

\* the rows list_people prints between the rules of the table
list_people(people, pad) ==
  [i \in 1..Len(people) |->
     [idx |-> i,
      name |-> GetText(people[i], "name"),
      surname |-> GetText(people[i], "surname"),
      zodiac_sign |-> GetText(people[i], "zodiac_sign"),
      birth_date_str |-> strftime(people[i]["date_of_birth"], pad)]]

RECURSIVE SelectLoopIdx(_, _, _, _, _)
\* mutant: a line is numbered by the record's position in the collection
SelectLoopIdx(people, month, i, count, lines) ==
  IF i > Len(people) THEN [count |-> count, lines |-> lines]
  ELSE IF people[i]["date_of_birth"].m = month
       THEN SelectLoopIdx(people, month, i + 1, count + 1,
                          Append(lines, [count |-> i,
                                         name |-> GetText(people[i], "name"),
                                         surname |-> GetText(people[i], "surname")]))
       ELSE SelectLoopIdx(people, month, i + 1, count, lines)

RECURSIVE SelectLoop(_, _, _, _, _)
SelectLoop(people, month, i, count, lines) ==
  IF i > Len(people) THEN [count |-> count, lines |-> lines]
  ELSE IF people[i]["date_of_birth"].m = month
       THEN SelectLoop(people, month, i + 1, count + 1,
                       Append(lines, [count |-> count + 1,
                                      name |-> GetText(people[i], "name"),
                                      surname |-> GetText(people[i], "surname")]))
       ELSE SelectLoop(people, month, i + 1, count, lines)

\* select_people: the printed lines, and whether the not-found notice is
\* printed
select_people(people, month) ==
  LET r == SelectLoop(people, month, 1, 0, <<>>)
  IN  [lines |-> r.lines, notice |-> (r.count = 0)]

\* ------------------------------------------------------------------ save
\* save_people: every record with date_of_birth rendered as text, written
\* as one JSON array over the previous content of the file
save_people(staff, pad) ==
  [kind |-> "json",
   top |-> Arr([i \in 1..Len(staff) |->
                  Obj([staff[i] EXCEPT
                         !["date_of_birth"] =
                            Str(strftime(staff[i]["date_of_birth"], pad))])])]

\* ------------------------------------------------------------------ inputs
Anna == <<"A", "n", "n", "a">>

Boris == <<"B", "o", "r", "i", "s">>

Ivanova == <<"I", "v">>

Petrov == <<"P", "e">>

Pisces == <<"P", "i">>

Aquarius == <<"A", "q">>

\* well-formed date texts: canonical, one-digit day and month, year below 1000
D15_03_1990 == <<"1", "5", ".", "0", "3", ".", "1", "9", "9", "0">>

D1_5_2000 == <<"1", ".", "5", ".", "2", "0", "0", "0">>

D01_05_0999 == <<"0", "1", ".", "0", "5", ".", "0", "9", "9", "9">>

D29_12_2000 == <<"2", "9", ".", "1", "2", ".", "2", "0", "0", "0">>

\* texts strptime rejects: ISO order, and a day the month does not have
DIso == <<"1", "9", "9", "0", "-", "0", "3", "-", "1", "5">>

D31_02_1990 == <<"3", "1", ".", "0", "2", ".", "1", "9", "9", "0">>

Raw(name, surname, date_of_birth, zodiac_sign) ==
  [name |-> name, surname |-> surname, date_of_birth |-> date_of_birth,
   zodiac_sign |-> zodiac_sign]

WithExtra(members) ==
  [k \in DOMAIN members \cup {"extra"} |->
     IF k = "extra" THEN Num ELSE members[k]]

Without(members, key) == [k \in DOMAIN members \ {key} |-> members[k]]

GoodAnna == Raw(Str(Anna), Str(Ivanova), Str(D15_03_1990), Str(Pisces))

\* the array elements the initial files are built from: four records load
\* accepts (two of one sign, one with a year below 1000, one with an extra
\* key and a lower-case sign) and three it rejects
SampleElems ==
  { Obj(GoodAnna),
    Obj(Raw(Str(Boris), Str(Ivanova), Str(D1_5_2000), Str(Pisces))),
    Obj(Raw(Str(Boris), Str(Ivanova), Str(D01_05_0999), Str(Aquarius))),
    Obj(WithExtra(Raw(Str(Anna), Str(Ivanova), Str(D29_12_2000), Str(<<"a">>)))),
    Obj(Without(GoodAnna, "zodiac_sign")),
    Obj([GoodAnna EXCEPT !["date_of_birth"] = Str(DIso)]),
    Num }

SeqsUpTo(S, n) == UNION {[1..k -> S] : k \in 0..n}

\* top-level JSON values that are not arrays
OtherTops == {Obj(GoodAnna), Str(<<"x", "y">>), Str(<<>>), Num, [t |-> "null"]}

InitFiles ==
  {[kind |-> "missing"], [kind |-> "text"]}
    \cup {[kind |-> "json", top |-> v] : v \in OtherTops}
    \cup {[kind |-> "json", top |-> Arr(a)] : a \in SeqsUpTo(SampleElems, MaxLen)}

Names == {Anna}

Surnames == {Petrov}

DateInputs == {D15_03_1990, D01_05_0999, D31_02_1990}

Signs == {Pisces, <<"A">>}

Months == {-1, 0, 5, 13}

\* ------------------------------------------------------------------ state
VARIABLES
  file,      \* the content of data/<filename>
  padYear,   \* whether this build's strftime pads %Y to four digits
  cmd,       \* the last command and its arguments
  before,    \* the file as the last command found it
  loaded,    \* what load_people returned or raised in the last command
  people,    \* the collection the last command ended with
  calls,     \* the functions the last command called, in order
  exit,      \* "ok", or "error" when the command ended with an exception
  out        \* what the last command printed

vars == <<file, padYear, cmd, before, loaded, people, calls, exit, out>>

NoOut == [lines |-> <<>>, notice |-> FALSE]

Init ==
  /\ file \in InitFiles
  /\ padYear \in BOOLEAN
  /\ cmd = [op |-> "none"]
  /\ before = file
  /\ loaded = [ok |-> FALSE, err |-> "none"]
  /\ people = <<>>
  /\ calls = <<>>
  /\ exit = "none"
  /\ out = NoOut

StoredLen(stored) ==
  IF stored.kind = "json" /\ stored.top.t = "array" THEN Len(stored.top.a)
  ELSE 0

\* the add command: load_people, add_person, save_people
add(name, surname, date_of_birth, zodiac_sign) ==
  /\ StoredLen(file) < MaxFile
  /\ cmd' = [op |-> "add", name |-> name, surname |-> surname,
             date_of_birth |-> date_of_birth, zodiac_sign |-> zodiac_sign]
  /\ before' = file
  /\ out' = NoOut
  /\ LET l == load_people(file)
     IN  /\ loaded' = l
         /\ IF ~l.ok
            THEN /\ calls' = <<"load_people">>
                 /\ exit' = "error"
                 /\ people' = <<>>
                 /\ file' = file
            ELSE LET r == add_person(l.people, name, surname, date_of_birth,
                                     zodiac_sign)
                 IN  IF ~r.ok
                     THEN /\ calls' = <<"load_people", "add_person">>
                          /\ exit' = "error"
                          /\ people' = l.people
                          /\ file' = file
                     ELSE /\ calls' = <<"load_people", "add_person",
                                        "save_people">>
                          /\ exit' = "ok"
                          /\ people' = r.people
                          /\ file' = save_people(r.people, padYear)
  /\ UNCHANGED padYear

\* mutant: the list command writes the loaded collection back
list_saving ==
  /\ cmd' = [op |-> "list"]
  /\ before' = file
  /\ LET l == load_people(file)
     IN  /\ loaded' = l
         /\ calls' = IF l.ok THEN <<"load_people", "list_people">>
                     ELSE <<"load_people">>
         /\ exit' = IF l.ok THEN "ok" ELSE "error"
         /\ people' = IF l.ok THEN l.people ELSE <<>>
         /\ out' = IF l.ok
                   THEN [lines |-> list_people(l.people, padYear),
                         notice |-> FALSE]
                   ELSE NoOut
         /\ file' = IF l.ok THEN save_people(l.people, padYear) ELSE file
  /\ UNCHANGED padYear

\* the list command: load_people, list_people
list ==
  /\ cmd' = [op |-> "list"]
  /\ before' = file
  /\ LET l == load_people(file)
     IN  /\ loaded' = l
         /\ IF ~l.ok
            THEN /\ calls' = <<"load_people">>
                 /\ exit' = "error"
                 /\ people' = <<>>
                 /\ out' = NoOut
            ELSE /\ calls' = <<"load_people", "list_people">>
                 /\ exit' = "ok"
                 /\ people' = l.people
                 /\ out' = [lines |-> list_people(l.people, padYear),
                            notice |-> FALSE]
  /\ UNCHANGED <<file, padYear>>

\* the select command: load_people, select_people
select(month) ==
  /\ cmd' = [op |-> "select", month |-> month]
  /\ before' = file
  /\ LET l == load_people(file)
     IN  /\ loaded' = l
         /\ IF ~l.ok
            THEN /\ calls' = <<"load_people">>
                 /\ exit' = "error"
                 /\ people' = <<>>
                 /\ out' = NoOut
            ELSE /\ calls' = <<"load_people", "select_people">>
                 /\ exit' = "ok"
                 /\ people' = l.people
                 /\ out' = select_people(l.people, month)
  /\ UNCHANGED <<file, padYear>>

Next ==
  \/ \E name \in Names, surname \in Surnames, date_of_birth \in DateInputs,
        zodiac_sign \in Signs :
       add(name, surname, date_of_birth, zodiac_sign)
  \/ list
  \/ \E month \in Months : select(month)

Spec == Init /\ [][Next]_vars

\* ------------------------------------------------- validation of raw records
Absent == [t |-> "absent"]

\* the object with the members that are not Absent
Members(n, sn, d, z, x) ==
  LET full == [name |-> n, surname |-> sn, date_of_birth |-> d,
               zodiac_sign |-> z, extra |-> x]
  IN  [k \in {j \in DOMAIN full : full[j].t # "absent"} |-> full[k]]

TextVals == {Absent, Num, Str(Anna)}

DateVals == {Absent, Num, Str(D15_03_1990), Str(DIso), Str(D31_02_1990)}

\* raw array elements of every shape: objects with any of the keys missing,
\* with or without an extra key, with string and non-string values, with date
\* texts that do and do not parse; and elements that are not objects
RawElems ==
  {Obj(Members(n, sn, d, z, x)) :
     n \in TextVals, sn \in TextVals, d \in DateVals, z \in TextVals,
     x \in {Absent, Num}}
    \cup {Num, Str(Anna), [t |-> "null"], Arr(<<>>)}

InitV ==
  /\ file \in {[kind |-> "json", top |-> Arr(<<e, Obj(GoodAnna)>>)] :
                 e \in RawElems}
  /\ padYear \in BOOLEAN
  /\ cmd = [op |-> "none"]
  /\ before = file
  /\ loaded = [ok |-> FALSE, err |-> "none"]
  /\ people = <<>>
  /\ calls = <<>>
  /\ exit = "none"
  /\ out = NoOut

NextV == list

\* the list command run on a file whose first element is any raw element
SpecV == InitV /\ [][NextV]_vars

\* ------------------------------------------------------------------ claims
IsArrayFile(stored) == stored.kind = "json" /\ stored.top.t = "array"

Sign(p) == p["zodiac_sign"].s

\* an element load accepts: valid against the schema, with a date that parses
Accepted(e) ==
  validate_person(e, person_schema) /\ strptime(e.f["date_of_birth"].s).ok

\* the record an accepted element becomes
Parsed(e) == [e.f EXCEPT !["date_of_birth"] = strptime(e.f["date_of_birth"].s).date]

AddSucceeded == cmd.op = "add" /\ exit = "ok"

\* the record the last add command was asked to add
NewRecord ==
  [name |-> Str(cmd.name), surname |-> Str(cmd.surname),
   date_of_birth |-> strptime(cmd.date_of_birth).date,
   zodiac_sign |-> Str(cmd.zodiac_sign)]

SortedBySign(ps) ==
  \A i \in 1..(Len(ps) - 1) : StrLeq(Sign(ps[i]), Sign(ps[i + 1]))

OfSign(ps, z) == SelectSeq(ps, LAMBDA p : Sign(p) = z)

\* C1: after a successful add the collection is the stable ascending sort by
\* zodiac_sign of the loaded collection with the new record appended: it has
\* the same length, adjacent signs are in order, and the records of each sign
\* are the loaded records of that sign in their loaded order followed by the
\* new record if it has that sign.
C1_AddIsStableSort ==
  AddSucceeded =>
    LET input == Append(loaded.people, NewRecord)
    IN  /\ Len(people) = Len(input)
        /\ SortedBySign(people)
        /\ \A i \in 1..Len(input) :
             OfSign(people, Sign(input[i])) = OfSign(input, Sign(input[i]))

\* an add that had to move records: the loaded collection was out of order,
\* and the new record went between a loaded record of its sign and a greater one
C1_Witness ==
  /\ AddSucceeded
  /\ ~SortedBySign(loaded.people)
  /\ \E i \in 2..(Len(people) - 1) :
       /\ people[i] = NewRecord
       /\ Sign(people[i - 1]) = cmd.zodiac_sign
       /\ people[i - 1] \in {loaded.people[j] : j \in 1..Len(loaded.people)}

\* C2: load_people returns, in file order and unsorted, exactly the elements of
\* the stored array that pass validation and whose date parses, each with its
\* date parsed.
C2_LoadIsAcceptedSubsequence ==
  (cmd.op # "none" /\ IsArrayFile(before)) =>
    LET kept == SelectSeq(before.top.a, Accepted)
    IN  /\ loaded.ok
        /\ loaded.people = [i \in 1..Len(kept) |-> Parsed(kept[i])]

\* a load that returned two records in file order, which is not sign order
C2_Witness ==
  /\ cmd.op # "none"
  /\ IsArrayFile(before)
  /\ loaded.ok
  /\ Len(loaded.people) = 2
  /\ Len(before.top.a) = 2
  /\ ~SortedBySign(loaded.people)
  /\ loaded.people[1]["date_of_birth"].t = "datetime"

\* C3: the file save_people writes over a stored array loads back as the collection that was
\* saved: as many records, in the same order, with equal name, surname,
\* zodiac_sign and date.
C3_RoundTrip ==
  (AddSucceeded /\ IsArrayFile(before)) =>
    LET l == load_people(file)
    IN  /\ l.ok
        /\ Len(l.people) = Len(people)
        /\ \A i \in 1..Len(people) :
             \A k \in RequiredKeys :
               i <= Len(l.people) => l.people[i][k] = people[i][k]

\* C4: an add command whose date text does not parse ends with an error,
\* appends nothing, never calls save_people and leaves the file as it was.
C4_BadDateAddFails ==
  (cmd.op = "add" /\ ~strptime(cmd.date_of_birth).ok) =>
    /\ exit = "error"
    /\ file = before
    /\ \A i \in 1..Len(calls) : calls[i] # "save_people"
    /\ loaded.ok => people = loaded.people

\* such an add on a file that holds an element load rejects
C4_Witness ==
  /\ cmd.op = "add"
  /\ ~strptime(cmd.date_of_birth).ok
  /\ loaded.ok
  /\ \E i \in 1..Len(loaded.log) : loaded.log[i] # "accepted"
  /\ calls = <<"load_people", "add_person">>
  /\ file = before

\* C5: a command run on a file that is missing, is not JSON or holds a JSON
\* value that is not an array ends with an error, load_people returns no
\* collection, and nothing is written.
C5_NonArrayIsFatal ==
  (cmd.op # "none" /\ ~IsArrayFile(before)) =>
    /\ ~loaded.ok
    /\ exit = "error"
    /\ file = before

\* C6: list and select leave the file as it was; save_people is called only
\* by add, right after add_person returned; the file changes only by a call
\* of save_people.
C6_QueriesDoNotWrite ==
  /\ cmd.op \in {"list", "select"} =>
       /\ file = before
       /\ \A i \in 1..Len(calls) : calls[i] # "save_people"
  /\ \A i \in 1..Len(calls) :
       calls[i] = "save_people" =>
         cmd.op = "add" /\ i > 1 /\ calls[i - 1] = "add_person" /\ exit = "ok"
  /\ file # before => \E i \in 1..Len(calls) : calls[i] = "save_people"

\* a list command that printed rows from a file holding an element load
\* rejects, which is still in the file
C6_Witness ==
  /\ cmd.op = "list"
  /\ loaded.ok
  /\ Len(out.lines) > 0
  /\ \E i \in 1..Len(loaded.log) : loaded.log[i] # "accepted"
  /\ file = before

\* C7: select prints exactly the records born in the month, in collection
\* order, numbered 1..k; the not-found notice is printed iff k = 0; a month
\* outside 1..12 matches nothing.
C7_SelectIsMonthFilter ==
  (cmd.op = "select" /\ exit = "ok") =>
    LET match == SelectSeq(people, LAMBDA p : p["date_of_birth"].m = cmd.month)
    IN  /\ Len(out.lines) = Len(match)
        /\ \A i \in 1..Len(match) :
             /\ out.lines[i].count = i
             /\ out.lines[i].name = match[i]["name"].s
             /\ out.lines[i].surname = match[i]["surname"].s
        /\ out.notice <=> (Len(match) = 0)
        /\ cmd.month \notin 1..12 => (out.lines = <<>> /\ out.notice)

\* a select that printed two of three records, the first of the collection
\* not among them
C7_Witness ==
  /\ cmd.op = "select"
  /\ exit = "ok"
  /\ Len(people) = 3
  /\ Len(out.lines) = 2
  /\ people[1]["date_of_birth"].m # cmd.month
  /\ ~out.notice

\* the verdict validate_person gave on element i of the file of the last load
Verdict(i) == loaded.log[i] # "invalid"

\* text that is a calendar date in the day.month.year form the program stores
CalendarDateText(v) == strptime(v.s).ok

\* C8 as stated: validate_person is true exactly for an object whose keys are
\* exactly the four required keys, all with string values, the date text a
\* calendar date.
C8_ExactKeysAndDate ==
  (cmd.op # "none" /\ IsArrayFile(before) /\ loaded.ok) =>
    \A i \in 1..Len(before.top.a) :
      LET e == before.top.a[i]
      IN  Verdict(i) <=>
            /\ e.t = "object"
            /\ DOMAIN e.f = RequiredKeys
            /\ \A k \in RequiredKeys : e.f[k].t = "string"
            /\ CalendarDateText(e.f["date_of_birth"])

\* C8 amended: validate_person is true exactly for an object that has the four
\* required keys, each with a string value; other keys and the content of the
\* date text do not matter; every other element gets false, and the load goes
\* on (validate_person does not raise).
C8_RequiredKeysAreStrings ==
  (cmd.op # "none" /\ IsArrayFile(before)) =>
    /\ loaded.ok
    /\ Len(loaded.log) = Len(before.top.a)
    /\ \A i \in 1..Len(before.top.a) :
         LET e == before.top.a[i]
         IN  Verdict(i) <=>
               /\ e.t = "object"
               /\ RequiredKeys \subseteq DOMAIN e.f
               /\ \A k \in RequiredKeys : e.f[k].t = "string"

\* a record with an extra key and a date text that is no calendar date was
\* found valid
C8_Witness ==
  /\ cmd.op = "list"
  /\ loaded.ok
  /\ before.top.a[1].t = "object"
  /\ "extra" \in DOMAIN before.top.a[1].f
  /\ loaded.log[1] = "date_error"
  /\ loaded.log[2] = "accepted"

\* C9: load_people returns normally on every stored array, gives every element
\* an outcome, and accepts every good element whatever precedes it.
C9_BadElementsAreSkipped ==
  (cmd.op # "none" /\ IsArrayFile(before)) =>
    /\ loaded.ok
    /\ Len(loaded.log) = Len(before.top.a)
    /\ \A i \in 1..Len(before.top.a) :
         Accepted(before.top.a[i]) => loaded.log[i] = "accepted"
    /\ Len(loaded.people) =
         Cardinality({i \in 1..Len(loaded.log) : loaded.log[i] = "accepted"})

\* a good element accepted after an element that is not an object
C9_Witness ==
  /\ cmd.op # "none"
  /\ IsArrayFile(before)
  /\ Len(before.top.a) = 2
  /\ before.top.a[1].t = "number"
  /\ loaded.log = <<"invalid", "accepted">>
  /\ Len(loaded.people) = 1

\* C10: after a successful add on a stored array the file holds the accepted records of the
\* previous file plus the new one, sorted by sign, and no element that load
\* rejects.
C10_FileCleanAfterAdd ==
  (AddSucceeded /\ IsArrayFile(before)) =>
    LET l == load_people(file)
    IN  /\ IsArrayFile(file)
        /\ Len(file.top.a) = Len(loaded.people) + 1
        /\ l.ok
        /\ \A i \in 1..Len(l.log) : l.log[i] = "accepted"
        /\ SortedBySign(l.people)

====
